---- MODULE Spec2Model ----
(***************************************************************************)
(* calculatePopoverLayout (src/src/calculatePopoverLayout.ts) as a state   *)
(* machine: Init draws one call's arguments, Calculate applies the         *)
(* function.                                                               *)
(*                                                                         *)
(* Arithmetic.  The function halves arguments (width / 2, arrowBreadth /   *)
(* 2, preferredWidth / 2), so every length of the model is held in         *)
(* half-points: a length of k points is the integer 2 * k, and x / 2 is    *)
(* the exact integer Half(x).  Only sums, differences, min and max of      *)
(* arguments are ever halved, and those are even.  Areas are then 4 x the  *)
(* area in square points, which leaves every comparison unchanged.         *)
(***************************************************************************)
EXTENDS Integers, Sequences, FiniteSets, TLC

VARIABLES params, pc, layout

(* The Popover component (src/unnamed/part_000) around the function: its   *)
(* props and state, the value the SafeAreaConsumer hands to render, how    *)
(* often each callback prop was invoked, and the presses of the backdrop.  *)
VARIABLES props, state, edgeInsets, invoked, presses

component == <<props, state, edgeInsets, invoked, presses>>

vars == <<params, pc, layout, props, state, edgeInsets, invoked, presses>>

-----------------------------------------------------------------------------
(* Bounds of the explored arguments, in points.                            *)

MaxBackdrop == 3

MaxInset == 1

MaxSource == 1

MaxPreferred == 2

MaxArrow == 1

MaxPermitted == 1

MaxPreference == 2

-----------------------------------------------------------------------------
(* Math.max, Math.min, Math.abs, x / 2.                                    *)

Max(a, b) == IF a >= b THEN a ELSE b

Min(a, b) == IF a <= b THEN a ELSE b

Min3(a, b, c) == Min(Min(a, b), c)

Abs(a) == IF a >= 0 THEN a ELSE -a

Half(a) == a \div 2

Pt(k) == 2 * k

(* A value that may be undefined or null: <<>>, or <<v>> for the value v.  *)
undefined == <<>>

Some(v) == <<v>>

(* PopoverArrowDirection, and the "none" of PopoverLayout.arrow.direction. *)
PopoverArrowDirection == {"up", "down", "left", "right"}

(* The null of PopoverLayout|null.                                         *)
null == [arrow |-> [direction |-> "null"]]

IsNull(l) == l.arrow.direction = "null"

-----------------------------------------------------------------------------
(* calculatePopoverLayout, lines 90-139: the clipped source rectangle.     *)

sourcePointClipped(p) ==
    LET i == p.safeAreaEdgeInsets
        s == p.sourceRect
    IN  [x |-> Min(Max(s.x, i.left),
                   Max(p.backdropWidth - i.right, i.left)),
         y |-> Min(Max(s.y, i.top),
                   Max(p.backdropHeight - i.bottom, i.top))]

sourceRectClipped(p) ==
    LET i == p.safeAreaEdgeInsets
        s == p.sourceRect
        c == sourcePointClipped(p)
    IN  [x |-> c.x,
         y |-> c.y,
         width |-> Max(Min(s.width - Abs(c.x - s.x),
                           p.backdropWidth - i.left - i.right),
                       0),
         height |-> Max(Min(s.height - Abs(c.y - s.y),
                            p.backdropHeight - i.top - i.bottom),
                        0)]

(* sourceRectClippedMidpoint without the "/ 2": the far corner.            *)
sourceRectClippedFarCorner(p) ==
    LET c == sourcePointClipped(p)
        r == sourceRectClipped(p)
    IN  [x |-> c.x + r.width,
         y |-> c.y + r.height]

sourceRectClippedMidpoint(p) ==
    LET c == sourcePointClipped(p)
        r == sourceRectClipped(p)
    IN  [x |-> c.x + Half(r.width),
         y |-> c.y + Half(r.height)]

(* The CalculatePopoverLayoutForArrowDirectionParams built at 127-139.     *)
DirectionParams(p) ==
    [sourceRectClippedMidpoint |-> sourceRectClippedMidpoint(p),
     backdropWidth |-> p.backdropWidth,
     safeAreaEdgeInsets |-> p.safeAreaEdgeInsets,
     sourceRectClipped |-> sourceRectClipped(p),
     backdropHeight |-> p.backdropHeight,
     preferredHeight |-> p.preferredHeight,
     preferredWidth |-> p.preferredWidth,
     arrowBreadth |-> p.arrowBreadth,
     arrowLength |-> p.arrowLength,
     cornerWidth |-> p.cornerWidth,
     borderRadius |-> p.borderRadius]

-----------------------------------------------------------------------------
(* The four directional calculators and the no-arrow calculator.  Each    *)
(* calculator's consts (arrowPoint, popoverOrigin, popoverSize, radii) are *)
(* one operator each, suffixed with the calculator's direction and taking  *)
(* the earlier consts it reads.                                            *)

(* The ternary-and-max origin shared by down, up and none for x (lines     *)
(* 241-246, 327-332, 579-584) and by left, right and none for y (lines     *)
(* 417-422, 505-510, 588-593).                                             *)
OriginAlong(preferred, extent, farEdge, nearInset) ==
    Max(IF preferred + extent <= farEdge THEN preferred ELSE farEdge - extent,
        nearInset)

(* A PopoverLayout, lines 13-33, from the consts of a calculator.          *)
PopoverLayout(direction, arrowPoint, arrowWidth, arrowHeight, popoverOrigin, popoverSize, borderRadii) ==
    [arrow |-> [direction |-> direction,
                x |-> arrowPoint.x, y |-> arrowPoint.y,
                width |-> arrowWidth, height |-> arrowHeight],
     popover |-> [x |-> popoverOrigin.x, y |-> popoverOrigin.y,
                  width |-> popoverSize.width, height |-> popoverSize.height,
                  borderRadii |-> borderRadii]]

(* ---- down: the popover sits above the source ---- *)

(* arrowPointDown without the Math.min of x against the far safe edge.     *)
arrowPointDownPastFarEdge(q) ==
    LET i == q.safeAreaEdgeInsets
    IN  [x |-> Max(q.sourceRectClippedMidpoint.x - Half(q.arrowBreadth), i.left),
         y |-> Max(Min(q.sourceRectClipped.y - q.arrowLength,
                       q.backdropHeight - i.bottom - q.arrowLength),
                   i.top)]

arrowPointDown(q) ==
    LET i == q.safeAreaEdgeInsets
    IN  [x |-> Max(Min(q.sourceRectClippedMidpoint.x - Half(q.arrowBreadth),
                       q.backdropWidth - i.right - q.arrowBreadth),
                   i.left),
         y |-> Max(Min(q.sourceRectClipped.y - q.arrowLength,
                       q.backdropHeight - i.bottom - q.arrowLength),
                   i.top)]

(* popoverOriginDown without the Math.max of y against the top inset.      *)
popoverOriginDownUnclamped(q, arrowPoint) ==
    LET i == q.safeAreaEdgeInsets
        preferredX == q.sourceRectClippedMidpoint.x - Half(q.preferredWidth)
        preferredY == arrowPoint.y - q.preferredHeight
    IN  [x |-> OriginAlong(preferredX, q.preferredWidth,
                           q.backdropWidth - i.right, i.left),
         y |-> preferredY]

popoverOriginDown(q, arrowPoint) ==
    LET i == q.safeAreaEdgeInsets
        preferredX == q.sourceRectClippedMidpoint.x - Half(q.preferredWidth)
        preferredY == arrowPoint.y - q.preferredHeight
    IN  [x |-> OriginAlong(preferredX, q.preferredWidth,
                           q.backdropWidth - i.right, i.left),
         y |-> Max(preferredY, i.top)]

(* popoverSizeDown without the Math.min against the preferred size.       *)
popoverSizeDownUnbounded(q, arrowPoint, popoverOrigin) ==
    LET i == q.safeAreaEdgeInsets
    IN  [width |-> q.backdropWidth - popoverOrigin.x - i.right,
         height |-> arrowPoint.y - i.top]

popoverSizeDown(q, arrowPoint, popoverOrigin) ==
    LET i == q.safeAreaEdgeInsets
    IN  [width |-> Min(q.backdropWidth - popoverOrigin.x - i.right,
                       q.preferredWidth),
         height |-> Min(arrowPoint.y - i.top, q.preferredHeight)]

(* borderRadiiDown with every corner rounded, wherever the arrow is.       *)
borderRadiiDownAlwaysRounded(q, arrowPoint, popoverOrigin, popoverSize) ==
    [borderTopRightRadius |-> q.borderRadius,
     borderTopLeftRadius |-> q.borderRadius,
     borderBottomLeftRadius |-> q.borderRadius,
     borderBottomRightRadius |-> q.borderRadius]

borderRadiiDown(q, arrowPoint, popoverOrigin, popoverSize) ==
    [borderTopRightRadius |-> q.borderRadius,
     borderTopLeftRadius |-> q.borderRadius,
     borderBottomLeftRadius |->
         IF arrowPoint.x <= popoverOrigin.x + q.cornerWidth
         THEN 0 ELSE q.borderRadius,
     borderBottomRightRadius |->
         IF arrowPoint.x >= popoverOrigin.x + popoverSize.width - q.cornerWidth
         THEN 0 ELSE q.borderRadius]

calculatePopoverLayoutForArrowDirectionDown(q) ==
    LET arrowPoint == arrowPointDown(q)
        popoverOrigin == popoverOriginDown(q, arrowPoint)
        popoverSize == popoverSizeDown(q, arrowPoint, popoverOrigin)
        borderRadii == borderRadiiDown(q, arrowPoint, popoverOrigin, popoverSize)
    IN  PopoverLayout("down", arrowPoint, q.arrowBreadth, q.arrowLength,
                      popoverOrigin, popoverSize, borderRadii)

(* ---- up: the popover sits below the source ---- *)

(* arrowPointUp anchored at the source's top edge: "+ height" forgotten.   *)
arrowPointUpAtSourceTop(q) ==
    LET i == q.safeAreaEdgeInsets
    IN  [x |-> Max(Min(q.sourceRectClippedMidpoint.x - Half(q.arrowBreadth),
                       q.backdropWidth - i.right - q.arrowBreadth),
                   i.left),
         y |-> Max(Min(q.sourceRectClipped.y,
                       q.backdropHeight - i.bottom - q.arrowLength),
                   i.top)]

arrowPointUp(q) ==
    LET i == q.safeAreaEdgeInsets
    IN  [x |-> Max(Min(q.sourceRectClippedMidpoint.x - Half(q.arrowBreadth),
                       q.backdropWidth - i.right - q.arrowBreadth),
                   i.left),
         y |-> Max(Min(q.sourceRectClipped.y + q.sourceRectClipped.height,
                       q.backdropHeight - i.bottom - q.arrowLength),
                   i.top)]

preferredYUp(q, arrowPoint) == arrowPoint.y + q.arrowLength

popoverOriginUp(q, arrowPoint) ==
    LET i == q.safeAreaEdgeInsets
        preferredX == q.sourceRectClippedMidpoint.x - Half(q.preferredWidth)
    IN  [x |-> OriginAlong(preferredX, q.preferredWidth,
                           q.backdropWidth - i.right, i.left),
         y |-> Min(preferredYUp(q, arrowPoint), q.backdropHeight - i.bottom)]

(* popoverSizeUp with the width always the preferred one.                  *)
popoverSizeUpOfPreferredWidth(q, arrowPoint, popoverOrigin) ==
    LET i == q.safeAreaEdgeInsets
    IN  [width |-> q.preferredWidth,
         height |-> Min((q.backdropHeight - i.bottom) - preferredYUp(q, arrowPoint),
                        q.preferredHeight)]

popoverSizeUp(q, arrowPoint, popoverOrigin) ==
    LET i == q.safeAreaEdgeInsets
    IN  [width |-> Min(q.backdropWidth - popoverOrigin.x - i.right,
                       q.preferredWidth),
         height |-> Min((q.backdropHeight - i.bottom) - preferredYUp(q, arrowPoint),
                        q.preferredHeight)]

borderRadiiUp(q, arrowPoint, popoverOrigin, popoverSize) ==
    [borderTopRightRadius |->
         IF arrowPoint.x >= popoverOrigin.x + popoverSize.width - q.cornerWidth
         THEN 0 ELSE q.borderRadius,
     borderTopLeftRadius |->
         IF arrowPoint.x <= popoverOrigin.x + q.cornerWidth
         THEN 0 ELSE q.borderRadius,
     borderBottomLeftRadius |-> q.borderRadius,
     borderBottomRightRadius |-> q.borderRadius]

calculatePopoverLayoutForArrowDirectionUp(q) ==
    LET arrowPoint == arrowPointUp(q)
        popoverOrigin == popoverOriginUp(q, arrowPoint)
        popoverSize == popoverSizeUp(q, arrowPoint, popoverOrigin)
        borderRadii == borderRadiiUp(q, arrowPoint, popoverOrigin, popoverSize)
    IN  PopoverLayout("up", arrowPoint, q.arrowBreadth, q.arrowLength,
                      popoverOrigin, popoverSize, borderRadii)

(* ---- left: the popover sits to the right of the source ---- *)

arrowPointLeft(q) ==
    LET i == q.safeAreaEdgeInsets
    IN  [x |-> Max(Min(q.sourceRectClipped.x + q.sourceRectClipped.width,
                       q.backdropWidth - i.right - q.arrowLength),
                   i.left),
         y |-> Max(Min(q.sourceRectClippedMidpoint.y - Half(q.arrowBreadth),
                       q.backdropHeight - i.bottom - q.arrowBreadth),
                   i.top)]

popoverOriginLeft(q, arrowPoint) ==
    LET i == q.safeAreaEdgeInsets
        preferredX == arrowPoint.x + q.arrowLength
        preferredY == q.sourceRectClippedMidpoint.y - Half(q.preferredHeight)
    IN  [x |-> Max(Min(preferredX, q.backdropWidth - i.right),
                   arrowPoint.x + q.arrowLength),
         y |-> OriginAlong(preferredY, q.preferredHeight,
                           q.backdropHeight - i.bottom, i.top)]

(* popoverSizeLeft with the arrow's length taken off the width again.      *)
popoverSizeLeftArrowCountedTwice(q, arrowPoint, popoverOrigin) ==
    LET i == q.safeAreaEdgeInsets
    IN  [width |-> Min(q.backdropWidth - popoverOrigin.x - i.right - q.arrowLength,
                       q.preferredWidth),
         height |-> Min(q.backdropHeight - i.bottom - i.top,
                        q.preferredHeight)]

popoverSizeLeft(q, arrowPoint, popoverOrigin) ==
    LET i == q.safeAreaEdgeInsets
    IN  [width |-> Min(q.backdropWidth - popoverOrigin.x - i.right,
                       q.preferredWidth),
         height |-> Min(q.backdropHeight - i.bottom - i.top,
                        q.preferredHeight)]

borderRadiiLeft(q, arrowPoint, popoverOrigin, popoverSize) ==
    [borderTopRightRadius |-> q.borderRadius,
     borderTopLeftRadius |->
         IF arrowPoint.y <= popoverOrigin.y + q.cornerWidth
         THEN 0 ELSE q.borderRadius,
     borderBottomLeftRadius |->
         IF arrowPoint.y >= popoverOrigin.y + popoverSize.height - q.cornerWidth
         THEN 0 ELSE q.borderRadius,
     borderBottomRightRadius |-> q.borderRadius]

calculatePopoverLayoutForArrowDirectionLeft(q) ==
    LET arrowPoint == arrowPointLeft(q)
        popoverOrigin == popoverOriginLeft(q, arrowPoint)
        popoverSize == popoverSizeLeft(q, arrowPoint, popoverOrigin)
        borderRadii == borderRadiiLeft(q, arrowPoint, popoverOrigin, popoverSize)
    IN  PopoverLayout("left", arrowPoint, q.arrowLength, q.arrowBreadth,
                      popoverOrigin, popoverSize, borderRadii)

(* ---- right: the popover sits to the left of the source ---- *)

arrowPointRight(q) ==
    LET i == q.safeAreaEdgeInsets
    IN  [x |-> Min(Max(i.left, q.sourceRectClipped.x - q.arrowLength),
                   q.backdropWidth - i.right - q.arrowLength),
         y |-> Max(Min(q.sourceRectClippedMidpoint.y - Half(q.arrowBreadth),
                       q.backdropHeight - i.bottom - q.arrowBreadth),
                   i.top)]

popoverOriginRight(q, arrowPoint) ==
    LET i == q.safeAreaEdgeInsets
        preferredX == arrowPoint.x - q.preferredWidth
        preferredY == q.sourceRectClippedMidpoint.y - Half(q.preferredHeight)
    IN  [x |-> Min(Max(i.left, preferredX), arrowPoint.x),
         y |-> OriginAlong(preferredY, q.preferredHeight,
                           q.backdropHeight - i.bottom, i.top)]

(* popoverSizeRight without the "arrowPoint.x - left" term of its min,     *)
(* i.e. the width as the other three calculators compute it.               *)
popoverSizeRightWithoutArrowTerm(q, arrowPoint, popoverOrigin) ==
    LET i == q.safeAreaEdgeInsets
    IN  [width |-> Min(q.backdropWidth - popoverOrigin.x - i.right,
                       q.preferredWidth),
         height |-> Min(q.backdropHeight - i.bottom - i.top,
                        q.preferredHeight)]

popoverSizeRight(q, arrowPoint, popoverOrigin) ==
    LET i == q.safeAreaEdgeInsets
    IN  [width |-> Min3(arrowPoint.x - i.left,
                        q.backdropWidth - popoverOrigin.x - i.right,
                        q.preferredWidth),
         height |-> Min(q.backdropHeight - i.bottom - i.top,
                        q.preferredHeight)]

borderRadiiRight(q, arrowPoint, popoverOrigin, popoverSize) ==
    [borderTopRightRadius |->
         IF arrowPoint.y <= popoverOrigin.y + q.cornerWidth
         THEN 0 ELSE q.borderRadius,
     borderTopLeftRadius |-> q.borderRadius,
     borderBottomLeftRadius |-> q.borderRadius,
     borderBottomRightRadius |->
         IF arrowPoint.y >= popoverOrigin.y + popoverSize.height - q.cornerWidth
         THEN 0 ELSE q.borderRadius]

calculatePopoverLayoutForArrowDirectionRight(q) ==
    LET arrowPoint == arrowPointRight(q)
        popoverOrigin == popoverOriginRight(q, arrowPoint)
        popoverSize == popoverSizeRight(q, arrowPoint, popoverOrigin)
        borderRadii == borderRadiiRight(q, arrowPoint, popoverOrigin, popoverSize)
    IN  PopoverLayout("right", arrowPoint, q.arrowLength, q.arrowBreadth,
                      popoverOrigin, popoverSize, borderRadii)

(* ---- none: no arrow, the popover centred on the source ---- *)

popoverOriginNone(q) ==
    LET i == q.safeAreaEdgeInsets
        preferredX == q.sourceRectClippedMidpoint.x - Half(q.preferredWidth)
        preferredY == q.sourceRectClippedMidpoint.y - Half(q.preferredHeight)
    IN  [x |-> Min(OriginAlong(preferredX, q.preferredWidth,
                               q.backdropWidth - i.right, i.left),
                   q.backdropWidth - i.right),
         y |-> Min(OriginAlong(preferredY, q.preferredHeight,
                               q.backdropHeight - i.bottom, i.top),
                   q.backdropHeight - i.top)]

popoverSizeNone(q, popoverOrigin) ==
    LET i == q.safeAreaEdgeInsets
    IN  [width |-> Min(q.backdropWidth - i.right - popoverOrigin.x,
                       q.preferredWidth),
         height |-> Min(q.backdropHeight - i.bottom - popoverOrigin.y,
                        q.preferredHeight)]

calculatePopoverLayoutForArrowDirectionNone(q) ==
    LET arrowPoint == [x |-> 0, y |-> 0]
        popoverOrigin == popoverOriginNone(q)
        popoverSize == popoverSizeNone(q, popoverOrigin)
    IN  PopoverLayout("none", arrowPoint, 0, 0, popoverOrigin, popoverSize,
                      [borderTopRightRadius |-> q.borderRadius,
                       borderTopLeftRadius |-> q.borderRadius,
                       borderBottomLeftRadius |-> q.borderRadius,
                       borderBottomRightRadius |-> q.borderRadius])

-----------------------------------------------------------------------------
(* calculatePopoverLayout, lines 141-195: the selection.                   *)

(* The object literal of lines 141-146; its key order is the order of      *)
(* Object.keys(permutations) at line 185.                                  *)
permutations(q) ==
    [down |-> calculatePopoverLayoutForArrowDirectionDown(q),
     up |-> calculatePopoverLayoutForArrowDirectionUp(q),
     left |-> calculatePopoverLayoutForArrowDirectionLeft(q),
     right |-> calculatePopoverLayoutForArrowDirectionRight(q)]

(* The keys in the order of the PopoverArrowDirection enum instead.        *)
permutationKeysEnumOrder == <<"up", "down", "left", "right">>

permutationKeys == <<"down", "up", "left", "right">>

(* The comparator with a and b swapped: ascending order of area.           *)
sortLayoutsByAreaAscending(a, b) ==
    a.popover.height * a.popover.width - b.popover.height * b.popover.width

sortLayoutsByArea(a, b) ==
    b.popover.height * b.popover.width - a.popover.height * a.popover.width

(* Array.prototype.sort with a comparator: a stable sort (ECMAScript 2019, *)
(* and what the comment at lines 198-201 relies on), as an insertion sort. *)
InsertSorted(sorted, l) ==
    LET k == Cardinality({j \in 1..Len(sorted) : sortLayoutsByArea(sorted[j], l) <= 0})
    IN  SubSeq(sorted, 1, k) \o <<l>> \o SubSeq(sorted, k + 1, Len(sorted))

(* No sorting at all: the layouts stay in the order they were pushed.      *)
ArraySortLeavingOrder(s) == s

RECURSIVE ArraySort(_)
ArraySort(s) ==
    IF s = <<>> THEN <<>>
    ELSE InsertSorted(ArraySort(SubSeq(s, 1, Len(s) - 1)), s[Len(s)])

(* The exact-fit test with the width conjunct forgotten.                   *)
SatisfiesHeightOnly(p, l) ==
    l.popover.height = p.preferredHeight

(* The exact-fit test with the height conjunct forgotten.                  *)
SatisfiesWidthOnly(p, l) ==
    l.popover.width = p.preferredWidth

(* layout.popover.height === preferredHeight && ....width === preferredWidth *)
SatisfiesCompletely(p, l) ==
    /\ l.popover.height = p.preferredHeight
    /\ l.popover.width = p.preferredWidth

(* The for loop of lines 148-175 from index i on, `layouts` being what it  *)
(* has pushed so far: either it returns a layout, or it runs to the end.   *)
RECURSIVE PermittedLoop(_, _, _, _)
PermittedLoop(p, perms, i, layouts) ==
    IF i > Len(p.permittedArrowDirections)
    THEN [returned |-> FALSE, layouts |-> layouts]
    ELSE LET permittedDirection == p.permittedArrowDirections[i]
             l == IF permittedDirection \in DOMAIN perms
                  THEN perms[permittedDirection] ELSE null
         IN  IF IsNull(l) THEN PermittedLoop(p, perms, i + 1, layouts)
             ELSE IF SatisfiesCompletely(p, l)
                  THEN [returned |-> TRUE, layout |-> l]
                  ELSE PermittedLoop(p, perms, i + 1, Append(layouts, l))

(* The filter of line 186 keeping only the layouts of positive size, so    *)
(* that the list is empty when no direction has room.                      *)
NonPreferredLayoutsOfPositiveSize(perms) ==
    ArraySort(SelectSeq([k \in 1..Len(permutationKeys) |-> perms[permutationKeys[k]]],
                        LAMBDA l : /\ ~IsNull(l)
                                   /\ l.popover.width > 0
                                   /\ l.popover.height > 0))

(* Lines 184-187 without the sort of line 188: the layouts in key order.   *)
NonPreferredLayoutsUnsorted(perms) ==
    SelectSeq([k \in 1..Len(permutationKeys) |-> perms[permutationKeys[k]]],
              LAMBDA l : ~IsNull(l))

(* Lines 184-188: every permutation, in key order, nulls filtered, sorted. *)
NonPreferredLayouts(perms) ==
    ArraySort(SelectSeq([k \in 1..Len(permutationKeys) |-> perms[permutationKeys[k]]],
                        LAMBDA l : ~IsNull(l)))

(* calculatePopoverLayout without lines 178-182: with no exact fit it      *)
(* goes straight to the ranking of all four permutations.                  *)
calculatePopoverLayoutAnyDirection(p) ==
    LET q == DirectionParams(p)
        perms == permutations(q)
        loop == PermittedLoop(p, perms, 1, <<>>)
    IN  IF loop.returned THEN loop.layout
        ELSE LET nonPreferredLayouts == NonPreferredLayouts(perms)
             IN  IF Len(nonPreferredLayouts) > 0 THEN nonPreferredLayouts[1]
                 ELSE calculatePopoverLayoutForArrowDirectionNone(q)

calculatePopoverLayout(p) ==
    LET q == DirectionParams(p)
        perms == permutations(q)
        loop == PermittedLoop(p, perms, 1, <<>>)
    IN  IF loop.returned THEN loop.layout
        ELSE LET layouts == ArraySort(loop.layouts)
                 nonPreferredLayouts == NonPreferredLayouts(perms)
             IN  IF Len(layouts) # 0 THEN layouts[1]
                 ELSE IF Len(nonPreferredLayouts) > 0 THEN nonPreferredLayouts[1]
                 ELSE calculatePopoverLayoutForArrowDirectionNone(q)

-----------------------------------------------------------------------------
(* The arguments explored: CalculatePopoverLayoutParams, lines 35-47.      *)

Points(lo, hi) == {Pt(k) : k \in lo..hi}

EdgeInsets ==
    [top : Points(0, MaxInset), left : Points(0, MaxInset),
     bottom : Points(0, MaxInset), right : Points(0, MaxInset)]

(* The same inset on every edge, as popoverMinimumLayoutMargins defaults.  *)
UniformEdgeInsets ==
    {[top |-> m, left |-> m, bottom |-> m, right |-> m] : m \in Points(0, MaxInset)}

(* Square source rectangles anywhere on the grid of the largest backdrop.  *)
SourceRects ==
    {[x |-> x, y |-> y, width |-> e, height |-> e] :
        x \in Points(0, MaxBackdrop), y \in Points(0, MaxBackdrop),
        e \in Points(0, MaxSource)}

(* Every list of at most n directions, repetitions included.               *)
ListsUpTo(n) == UNION {[1..k -> PopoverArrowDirection] : k \in 0..n}

(* Popover.defaultProps.permittedArrowDirections.                          *)
DefaultPermittedArrowDirections == <<"down", "up", "left", "right">>

ParamsOver(lists, insets) ==
    [permittedArrowDirections : lists,
     safeAreaEdgeInsets : insets,
     sourceRect : SourceRects,
     backdropHeight : Points(0, MaxBackdrop),
     backdropWidth : Points(0, MaxBackdrop),
     preferredHeight : Points(1, MaxPreferred),
     preferredWidth : Points(1, MaxPreferred),
     arrowBreadth : Points(0, MaxArrow),
     arrowLength : Points(0, MaxArrow),
     cornerWidth : {Pt(2)},
     borderRadius : {Pt(1)}]

-----------------------------------------------------------------------------
(* One call: the arguments are drawn, then the function is applied.        *)

Calculate ==
    /\ pc = "call"
    /\ layout' = calculatePopoverLayout(params)
    /\ pc' = "returned"
    /\ UNCHANGED <<params, component>>

Next == Calculate

(* No component is mounted when the function is called on its own.         *)
NoComponent ==
    /\ props = undefined
    /\ state = undefined
    /\ edgeInsets = undefined
    /\ invoked = undefined
    /\ presses = 0

(* Spec: every inset on its own, the permitted list empty or a single      *)
(* direction.                                                              *)
Init ==
    /\ params \in ParamsOver(ListsUpTo(MaxPermitted), EdgeInsets)
    /\ pc = "call"
    /\ layout = null
    /\ NoComponent

Spec == Init /\ [][Next]_vars

(* SpecPreference: every permitted list of up to MaxPreference directions  *)
(* in every order, and the default, over uniform insets.                   *)
InitPreference ==
    /\ params \in ParamsOver(ListsUpTo(MaxPreference) \cup {DefaultPermittedArrowDirections},
                             UniformEdgeInsets)
    /\ pc = "call"
    /\ layout = null
    /\ NoComponent

SpecPreference == InitPreference /\ [][Next]_vars

(* SpecSource: source rectangles of every width and height up to           *)
(* MaxSourceSpan, under every inset on its own, and arrows up to           *)
(* MaxBreadth broad.                                                       *)
MaxSourceSpan == 2

MaxBreadth == 2

SourceRectsOfAnyShape ==
    [x : Points(0, MaxBackdrop), y : Points(0, MaxBackdrop),
     width : Points(0, MaxSourceSpan), height : Points(0, MaxSourceSpan)]

InitSource ==
    /\ params \in [permittedArrowDirections : {DefaultPermittedArrowDirections},
                    safeAreaEdgeInsets : EdgeInsets,
                    sourceRect : SourceRectsOfAnyShape,
                    backdropHeight : Points(0, MaxBackdrop),
                    backdropWidth : Points(0, MaxBackdrop),
                    preferredHeight : {Pt(MaxPreferred)},
                    preferredWidth : {Pt(MaxPreferred)},
                    arrowBreadth : Points(1, MaxBreadth),
                    arrowLength : {Pt(MaxArrow)},
                    cornerWidth : {Pt(2)},
                    borderRadius : {Pt(1)}]
    /\ pc = "call"
    /\ layout = null
    /\ NoComponent

SpecSource == InitSource /\ [][Next]_vars

(* SpecNone: calculatePopoverLayoutForArrowDirectionNone called on its     *)
(* own, the direction arguments being built as lines 82-139 build them,    *)
(* over every inset on its own.                                            *)
CalculateNone ==
    /\ pc = "call"
    /\ layout' = calculatePopoverLayoutForArrowDirectionNone(DirectionParams(params))
    /\ pc' = "returned"
    /\ UNCHANGED <<params, component>>

NextNone == CalculateNone

InitNone ==
    /\ params \in ParamsOver({<<>>}, EdgeInsets)
    /\ pc = "call"
    /\ layout = null
    /\ NoComponent

SpecNone == InitNone /\ [][NextNone]_vars

(* SpecCorner: backdrops and preferred sizes large enough for a popover to *)
(* keep a rounded corner beside the arrow, under every cornerWidth up to   *)
(* MaxCornerWidth and one permitted direction.                             *)
MaxCornerBackdrop == 4

MaxCornerPreferred == 3

MaxCornerWidth == 2

InitCorner ==
    /\ params \in [permittedArrowDirections : [1..1 -> PopoverArrowDirection],
                    safeAreaEdgeInsets : UniformEdgeInsets,
                    sourceRect : {[x |-> x, y |-> y, width |-> Pt(1), height |-> Pt(1)] :
                                     x \in Points(0, MaxCornerBackdrop),
                                     y \in Points(0, MaxCornerBackdrop)},
                    backdropHeight : Points(0, MaxCornerBackdrop),
                    backdropWidth : Points(0, MaxCornerBackdrop),
                    preferredHeight : Points(1, MaxCornerPreferred),
                    preferredWidth : Points(1, MaxCornerPreferred),
                    arrowBreadth : Points(1, MaxBreadth),
                    arrowLength : {Pt(MaxArrow)},
                    cornerWidth : Points(0, MaxCornerWidth),
                    borderRadius : {Pt(1)}]
    /\ pc = "call"
    /\ layout = null
    /\ NoComponent

SpecCorner == InitCorner /\ [][Next]_vars

-----------------------------------------------------------------------------
(* The Popover component, src/unnamed/part_000.  A prop the caller may     *)
(* leave out is undefined or Some(value); a callback prop is undefined or  *)
(* Some("callback").                                                       *)

(* Popover's private static fields, in points.                             *)
Popover_arrowLength == 15

Popover_arrowBreadth == 30

Popover_borderRadius == 15

Popover_cornerWidth == Popover_borderRadius * 2

(* How many presses of the backdrop are followed.                          *)
MaxPresses == 2

defaultProps ==
    [preferredWidth |-> Pt(300),
     preferredHeight |-> Pt(400),
     permittedArrowDirections |-> DefaultPermittedArrowDirections,
     popoverMinimumLayoutMargins |->
         [top |-> Pt(10), left |-> Pt(10), right |-> Pt(10), bottom |-> Pt(10)]]

(* React fills a prop that is undefined with its defaultProps value.       *)
WithDefaultProps(given) ==
    [k \in DOMAIN given |->
        IF k \in DOMAIN defaultProps /\ given[k] = undefined
        THEN Some(defaultProps[k])
        ELSE given[k]]

(* The layout margins a caller passes.                                     *)
GivenMargins ==
    {[top |-> Pt(0), left |-> Pt(0), right |-> Pt(0), bottom |-> Pt(0)],
     [top |-> Pt(20), left |-> Pt(20), right |-> Pt(20), bottom |-> Pt(20)],
     [top |-> Pt(0), left |-> Pt(50), right |-> Pt(5), bottom |-> Pt(40)]}

(* The source rectangles a caller passes.                                  *)
GivenSourceRects ==
    {[x |-> Pt(180), y |-> Pt(100), width |-> Pt(40), height |-> Pt(40)],
     [x |-> Pt(350), y |-> Pt(400), width |-> Pt(40), height |-> Pt(40)]}

(* The preferred sizes a caller passes: none, or 200 x 150.                *)
GivenPreferredSizes ==
    {[preferredWidth |-> undefined, preferredHeight |-> undefined],
     [preferredWidth |-> Some(Pt(200)), preferredHeight |-> Some(Pt(150))]}

(* The props a caller passes: PopoverProps, and the onBackdropPress of the *)
(* README.                                                                 *)
GivenProps ==
    {[preferredWidth |-> p.preferredWidth,
      preferredHeight |-> p.preferredHeight,
      sourceRectX |-> s.x,
      sourceRectY |-> s.y,
      sourceRectWidth |-> s.width,
      sourceRectHeight |-> s.height,
      dismissModalOnBackdropPress |-> d,
      onBackdropPress |-> o,
      modalVisible |-> v,
      permittedArrowDirections |-> l,
      popoverMinimumLayoutMargins |-> m] :
        p \in GivenPreferredSizes,
        s \in GivenSourceRects,
        d \in {undefined, Some("callback")},
        o \in {undefined, Some("callback")},
        v \in BOOLEAN,
        l \in {undefined, Some(<<"down">>)},
        m \in {undefined} \cup {Some(g) : g \in GivenMargins}}

(* The sizes a layout event of the backdrop reports: portrait, landscape.  *)
WindowSizes ==
    {[backdropWidth |-> Pt(400), backdropHeight |-> Pt(800)],
     [backdropWidth |-> Pt(800), backdropHeight |-> Pt(400)]}

(* What the SafeAreaConsumer hands to its child: null, or the insets.      *)
PlatformEdgeInsets ==
    {undefined,
     Some([top |-> Pt(0), left |-> Pt(0), right |-> Pt(0), bottom |-> Pt(0)]),
     Some([top |-> Pt(44), left |-> Pt(0), right |-> Pt(0), bottom |-> Pt(34)]),
     Some([top |-> Pt(0), left |-> Pt(44), right |-> Pt(44), bottom |-> Pt(21)])}

(* insets?.edge ?? 0                                                       *)
OptionalInset(insets, edge) ==
    IF insets = undefined THEN 0 ELSE insets[1][edge]

(* render with the platform insets left out of the Math.max.               *)
RenderParamsMarginsOnly(pr, st, insets) ==
    [permittedArrowDirections |-> pr.permittedArrowDirections[1],
     safeAreaEdgeInsets |->
         [edge \in {"left", "top", "bottom", "right"} |->
             OptionalInset(pr.popoverMinimumLayoutMargins, edge)],
     sourceRect |-> [x |-> pr.sourceRectX, y |-> pr.sourceRectY,
                     width |-> pr.sourceRectWidth, height |-> pr.sourceRectHeight],
     backdropHeight |-> st.backdropHeight,
     backdropWidth |-> st.backdropWidth,
     preferredHeight |-> pr.preferredHeight[1],
     preferredWidth |-> pr.preferredWidth[1],
     arrowBreadth |-> Pt(Popover_arrowBreadth),
     arrowLength |-> Pt(Popover_arrowLength),
     cornerWidth |-> Pt(Popover_cornerWidth),
     borderRadius |-> Pt(Popover_borderRadius)]

(* render, lines 249-267: the argument of calculatePopoverLayout.          *)
RenderParams(pr, st, insets) ==
    [permittedArrowDirections |-> pr.permittedArrowDirections[1],
     safeAreaEdgeInsets |->
         [edge \in {"left", "top", "bottom", "right"} |->
             Max(OptionalInset(insets, edge),
                 OptionalInset(pr.popoverMinimumLayoutMargins, edge))],
     sourceRect |-> [x |-> pr.sourceRectX, y |-> pr.sourceRectY,
                     width |-> pr.sourceRectWidth, height |-> pr.sourceRectHeight],
     backdropHeight |-> st.backdropHeight,
     backdropWidth |-> st.backdropWidth,
     preferredHeight |-> pr.preferredHeight[1],
     preferredWidth |-> pr.preferredWidth[1],
     arrowBreadth |-> Pt(Popover_arrowBreadth),
     arrowLength |-> Pt(Popover_arrowLength),
     cornerWidth |-> Pt(Popover_cornerWidth),
     borderRadius |-> Pt(Popover_borderRadius)]

(* render: builds the arguments and calls calculatePopoverLayout.  A       *)
(* render is due (pc = "call") after mounting, after setState, after the   *)
(* consumer's value changed and after the parent passed new props; the     *)
(* events that arrive before React gets to it are served by one render.    *)
render ==
    /\ pc = "call"
    /\ params' = RenderParams(props, state, edgeInsets)
    /\ layout' = calculatePopoverLayout(params')
    /\ pc' = "returned"
    /\ UNCHANGED component

(* this.state.backdropWidth = width in place of this.setState: the state   *)
(* changes and no render becomes due.                                      *)
onLayoutAssigningState ==
    /\ ~IsNull(layout)
    /\ props.modalVisible
    /\ \E layoutEvent \in WindowSizes :
           /\ layoutEvent # state
           /\ state' = [backdropWidth |-> layoutEvent.backdropWidth,
                        backdropHeight |-> layoutEvent.backdropHeight]
    /\ UNCHANGED <<params, pc, layout, props, edgeInsets, invoked, presses>>

(* onLayout: the mounted, visible modal's backdrop reports a new size;     *)
(* setState.                                                               *)
onLayout ==
    /\ ~IsNull(layout)
    /\ props.modalVisible
    /\ \E layoutEvent \in WindowSizes :
           /\ layoutEvent # state
           /\ state' = [backdropWidth |-> layoutEvent.backdropWidth,
                        backdropHeight |-> layoutEvent.backdropHeight]
    /\ pc' = "call"
    /\ UNCHANGED <<params, layout, props, edgeInsets, invoked, presses>>

(* The SafeAreaConsumer of the mounted component gets a new value, and     *)
(* will call its child with it.                                            *)
SafeAreaConsumer ==
    /\ ~IsNull(layout)
    /\ \E insets \in PlatformEdgeInsets :
           /\ insets # edgeInsets
           /\ edgeInsets' = insets
    /\ pc' = "call"
    /\ UNCHANGED <<params, layout, props, state, invoked, presses>>

(* onBackdropPress: the user presses the backdrop of the visible modal.    *)
onBackdropPress ==
    /\ ~IsNull(layout)
    /\ props.modalVisible
    /\ presses < MaxPresses
    /\ presses' = presses + 1
    /\ invoked' =
           IF props.dismissModalOnBackdropPress # undefined
           THEN [invoked EXCEPT !.dismissModalOnBackdropPress = @ + 1]
           ELSE invoked
    /\ UNCHANGED <<params, pc, layout, props, state, edgeInsets>>

(* The parent renders the mounted Popover again with another source        *)
(* rectangle or preferred size; PureComponent sees the changed prop and a  *)
(* render is due.                                                          *)
ParentRender ==
    /\ ~IsNull(layout)
    /\ \E s \in GivenSourceRects, p \in GivenPreferredSizes :
           LET given == WithDefaultProps(
                            [props EXCEPT !.sourceRectX = s.x,
                                          !.sourceRectY = s.y,
                                          !.sourceRectWidth = s.width,
                                          !.sourceRectHeight = s.height,
                                          !.preferredWidth = p.preferredWidth,
                                          !.preferredHeight = p.preferredHeight])
           IN  /\ given # props
               /\ props' = given
    /\ pc' = "call"
    /\ UNCHANGED <<params, layout, state, edgeInsets, invoked, presses>>

NextPopover ==
    render \/ onLayout \/ SafeAreaConsumer \/ onBackdropPress \/ ParentRender

(* The constructor, lines 177-186, with the first render due.              *)
InitPopover ==
    /\ props \in {WithDefaultProps(given) : given \in GivenProps}
    /\ state = [backdropWidth |-> 0, backdropHeight |-> 0]
    /\ edgeInsets \in PlatformEdgeInsets
    /\ invoked = [dismissModalOnBackdropPress |-> 0, onBackdropPress |-> 0]
    /\ presses = 0
    /\ params = RenderParams(props, state, edgeInsets)
    /\ pc = "call"
    /\ layout = null

SpecPopover == InitPopover /\ [][NextPopover]_vars

-----------------------------------------------------------------------------
(* What the properties below speak of.                                     *)

Returned == pc = "returned"

(* The four candidates of the current call.                                *)
Candidates == permutations(DirectionParams(params))

Permitted == params.permittedArrowDirections

(* The candidates of the permitted directions, in list order.              *)
PermittedCandidates ==
    LET c == Candidates
    IN  [k \in 1..Len(Permitted) |-> c[Permitted[k]]]

Area(l) == l.popover.width * l.popover.height

ExactFit(l) ==
    /\ l.popover.width = params.preferredWidth
    /\ l.popover.height = params.preferredHeight

PositiveSize(l) == l.popover.width > 0 /\ l.popover.height > 0

SafeLeft == params.safeAreaEdgeInsets.left

SafeRight == params.backdropWidth - params.safeAreaEdgeInsets.right

SafeTop == params.safeAreaEdgeInsets.top

SafeBottom == params.backdropHeight - params.safeAreaEdgeInsets.bottom

(* Rectangle r lies within the safe region.                                *)
WithinSafeArea(r) ==
    /\ SafeLeft <= r.x
    /\ r.x + r.width <= SafeRight
    /\ SafeTop <= r.y
    /\ r.y + r.height <= SafeBottom

-----------------------------------------------------------------------------
(* C1.  Containment: for every argument (insets >= 0, backdrop >= 0,       *)
(* preferred size > 0, arrow >= 0, any source rectangle, any permitted     *)
(* list) the returned popover rectangle lies within the safe region, and   *)
(* so does the arrow rectangle when the direction is not none.             *)
C1_Containment ==
    Returned =>
        /\ WithinSafeArea(layout.popover)
        /\ layout.arrow.direction # "none" => WithinSafeArea(layout.arrow)

(* C2.  Size bound: the returned popover is never wider than               *)
(* preferredWidth nor higher than preferredHeight.                         *)
C2_SizeBound ==
    Returned =>
        /\ layout.popover.width <= params.preferredWidth
        /\ layout.popover.height <= params.preferredHeight

(* A down layout whose preferred width is narrower than the room there is, *)
(* and whose height is cut short of the preferred height.                  *)
C2_Witness ==
    /\ Returned
    /\ layout.arrow.direction = "down"
    /\ params.backdropWidth - layout.popover.x - params.safeAreaEdgeInsets.right
           > params.preferredWidth
    /\ layout.popover.width = params.preferredWidth
    /\ 0 < layout.popover.height
    /\ layout.popover.height < params.preferredHeight

(* C3.  Permitted directions are respected: with a non-empty permitted     *)
(* list the returned arrow direction is one of the listed directions, and  *)
(* the list [down] yields the down candidate.                              *)
C3_PermittedRespected ==
    (Returned /\ Len(Permitted) > 0) =>
        /\ \E k \in 1..Len(Permitted) : layout.arrow.direction = Permitted[k]
        /\ Permitted = <<"down">> => layout = Candidates.down

(* Only down is permitted and is returned, cut short, although the up      *)
(* candidate would have had exactly the preferred size.                    *)
C3_Witness ==
    /\ Returned
    /\ Permitted = <<"down">>
    /\ layout.arrow.direction = "down"
    /\ ~ExactFit(layout)
    /\ ExactFit(Candidates.up)

(* C4.  Preference short-circuit: if some permitted direction's candidate  *)
(* has exactly the preferred size, the candidate of the first such         *)
(* direction in list order is returned.                                    *)
C4_PreferenceShortCircuit ==
    Returned =>
        LET c == PermittedCandidates
        IN  \A k \in 1..Len(c) :
                (/\ ExactFit(c[k])
                 /\ \A j \in 1..(k - 1) : ~ExactFit(c[j]))
                    => layout = c[k]

(* The first listed direction does not fit exactly, the second and the     *)
(* third both do, and the second is returned.                              *)
C4_Witness ==
    /\ Returned
    /\ Len(Permitted) >= 3
    /\ Permitted[2] # Permitted[3]
    /\ layout.arrow.direction = Permitted[2]
    /\ LET c == PermittedCandidates
       IN  ~ExactFit(c[1]) /\ ExactFit(c[2]) /\ ExactFit(c[3])

(* C5.  Area ranking: with a non-empty permitted list and no permitted     *)
(* candidate of exactly the preferred size, the permitted candidate of     *)
(* largest area is returned, and among several of that area the one        *)
(* listed first.                                                           *)
C5_AreaRanking ==
    (Returned /\ Len(Permitted) > 0) =>
        LET c == PermittedCandidates
        IN  (\A k \in 1..Len(c) : ~ExactFit(c[k]))
                => \E k \in 1..Len(c) :
                       /\ layout = c[k]
                       /\ \A j \in 1..Len(c) : Area(c[j]) <= Area(c[k])
                       /\ \A j \in 1..(k - 1) : Area(c[j]) < Area(c[k])

(* No exact fit; a smaller candidate is listed first, then two different   *)
(* directions tie on the largest, positive area; the earlier is returned.  *)
C5_Witness ==
    /\ Returned
    /\ Len(Permitted) >= 3
    /\ LET c == PermittedCandidates
       IN  /\ \A k \in 1..Len(c) : ~ExactFit(c[k])
           /\ \E h, i, j \in 1..Len(c) :
                  /\ h < i /\ i < j
                  /\ Permitted[i] # Permitted[j]
                  /\ layout.arrow.direction = Permitted[i]
                  /\ Area(c[h]) < Area(c[i])
                  /\ Area(c[i]) = Area(c[j])
                  /\ Area(c[i]) > 0
                  /\ \A k \in 1..Len(c) : Area(c[k]) <= Area(c[i])

(* The order in which C6 resolves ties.                                    *)
C6_TieOrder == <<"down", "up", "left", "right">>

(* C6.  Graceful degradation: with an empty permitted list a complete      *)
(* layout is still returned, the candidate of largest area among all four  *)
(* directions, ties going to the first of down, up, left, right.           *)
C6_EmptyPermitted ==
    (Returned /\ Permitted = <<>>) =>
        /\ ~IsNull(layout)
        /\ LET c == Candidates
           IN  \E k \in 1..4 :
                   /\ layout = c[C6_TieOrder[k]]
                   /\ \A d \in PopoverArrowDirection : Area(c[d]) <= Area(layout)
                   /\ \A j \in 1..(k - 1) : Area(c[C6_TieOrder[j]]) < Area(layout)

(* Empty list; down and up tie on the largest, positive area while left    *)
(* and right are smaller; down is returned.                                *)
C6_Witness ==
    /\ Returned
    /\ Permitted = <<>>
    /\ layout.arrow.direction = "down"
    /\ LET c == Candidates
       IN  /\ Area(c.down) = Area(c.up)
           /\ Area(c.down) > 0
           /\ Area(c.left) < Area(c.down)
           /\ Area(c.right) < Area(c.down)

(* C7.  Degenerate arguments give non-negative geometry: for every         *)
(* argument, a 0 x 0 backdrop and insets exceeding the backdrop included,  *)
(* the returned popover has width >= 0 and height >= 0.                    *)
C7_NonNegativeSize ==
    Returned =>
        /\ layout.popover.width >= 0
        /\ layout.popover.height >= 0

(* No directional candidate has strictly positive width and height.        *)
NothingFits ==
    LET c == Candidates
    IN  \A d \in PopoverArrowDirection : ~PositiveSize(c[d])

(* C8.  Arrow omitted when nothing fits: if no directional candidate has   *)
(* strictly positive width and height, the no-arrow layout is returned.    *)
C8_ArrowOmittedWhenNothingFits ==
    (Returned /\ NothingFits) =>
        /\ layout.arrow.direction = "none"
        /\ layout = calculatePopoverLayoutForArrowDirectionNone(DirectionParams(params))

(* The safe region is at least arrowLength and arrowBreadth wide and high. *)
SafeAreaHoldsArrow ==
    /\ SafeRight - SafeLeft >= params.arrowLength
    /\ SafeRight - SafeLeft >= params.arrowBreadth
    /\ SafeBottom - SafeTop >= params.arrowLength
    /\ SafeBottom - SafeTop >= params.arrowBreadth

PreferredHoldsArrow ==
    /\ params.preferredWidth >= params.arrowBreadth
    /\ params.preferredHeight >= params.arrowBreadth

(* The arrow's extent along x, or along y, lies within the popover's.      *)
ArrowWithinPopoverAlongX ==
    /\ layout.popover.x <= layout.arrow.x
    /\ layout.arrow.x + layout.arrow.width <= layout.popover.x + layout.popover.width

ArrowWithinPopoverAlongY ==
    /\ layout.popover.y <= layout.arrow.y
    /\ layout.arrow.y + layout.arrow.height <= layout.popover.y + layout.popover.height

(* C9.  The arrow never detaches from the content box: when the safe       *)
(* region is at least arrowLength and arrowBreadth wide and high and the   *)
(* preferred width and height are at least arrowBreadth, the arrow's base  *)
(* lies exactly on the popover edge it protrudes from and its extent along *)
(* that edge lies within the popover's.                                    *)
C9_ArrowAttached ==
    (Returned /\ SafeAreaHoldsArrow /\ PreferredHoldsArrow) =>
        /\ layout.arrow.direction \in PopoverArrowDirection
        /\ layout.arrow.direction = "down" =>
               /\ layout.arrow.y = layout.popover.y + layout.popover.height
               /\ ArrowWithinPopoverAlongX
        /\ layout.arrow.direction = "up" =>
               /\ layout.arrow.y + layout.arrow.height = layout.popover.y
               /\ ArrowWithinPopoverAlongX
        /\ layout.arrow.direction = "left" =>
               /\ layout.arrow.x + layout.arrow.width = layout.popover.x
               /\ ArrowWithinPopoverAlongY
        /\ layout.arrow.direction = "right" =>
               /\ layout.arrow.x = layout.popover.x + layout.popover.width
               /\ ArrowWithinPopoverAlongY

(* A right layout with a real arrow, whose popover is narrower than        *)
(* preferred because the safe left edge cuts it.                           *)
C9_Witness ==
    /\ Returned
    /\ SafeAreaHoldsArrow
    /\ PreferredHoldsArrow
    /\ params.arrowLength > 0
    /\ params.arrowBreadth > 0
    /\ layout.arrow.direction = "right"
    /\ layout.popover.x = SafeLeft
    /\ 0 < layout.popover.width
    /\ layout.popover.width < params.preferredWidth

(* Rectangles a and b share a region of positive area.                     *)
Overlap(a, b) ==
    /\ Max(a.x, b.x) < Min(a.x + a.width, b.x + b.width)
    /\ Max(a.y, b.y) < Min(a.y + a.height, b.y + b.height)

(* C10.  The popover does not overlap the source rectangle: a returned     *)
(* popover of positive width and height shares no region of positive area  *)
(* with the clipped source rectangle; it lies wholly above it (down),      *)
(* below it (up), right of it (left) or left of it (right).                *)
C10_NoOverlapWithSource ==
    (Returned /\ PositiveSize(layout)) =>
        LET source == sourceRectClipped(params)
            popover == layout.popover
        IN  /\ ~Overlap(popover, source)
            /\ layout.arrow.direction = "down" =>
                   popover.y + popover.height <= source.y
            /\ layout.arrow.direction = "up" =>
                   popover.y >= source.y + source.height
            /\ layout.arrow.direction = "left" =>
                   popover.x >= source.x + source.width
            /\ layout.arrow.direction = "right" =>
                   popover.x + popover.width <= source.x

(* An up layout below a source rectangle of positive size, with less room  *)
(* below the source than the preferred height.                             *)
C10_Witness ==
    /\ Returned
    /\ layout.arrow.direction = "up"
    /\ sourceRectClipped(params).width > 0
    /\ sourceRectClipped(params).height > 0
    /\ params.arrowLength > 0
    /\ PositiveSize(layout)
    /\ layout.popover.height < params.preferredHeight

(* The safe region spans the preferred extent on direction d's cross axis  *)
(* and, on the popover's side of the clipped source rectangle, the         *)
(* preferred extent plus arrowLength.                                      *)
HappyPath(d) ==
    LET source == sourceRectClipped(params)
        spanX == SafeRight - SafeLeft
        spanY == SafeBottom - SafeTop
        alongX == params.preferredWidth + params.arrowLength
        alongY == params.preferredHeight + params.arrowLength
    IN  CASE d = "down" ->
                 /\ spanX >= params.preferredWidth
                 /\ source.y - SafeTop >= alongY
          [] d = "up" ->
                 /\ spanX >= params.preferredWidth
                 /\ SafeBottom - (source.y + source.height) >= alongY
          [] d = "left" ->
                 /\ spanY >= params.preferredHeight
                 /\ SafeRight - (source.x + source.width) >= alongX
          [] d = "right" ->
                 /\ spanY >= params.preferredHeight
                 /\ source.x - SafeLeft >= alongX

(* C11.  The happy path attains the preferred size: for each direction,    *)
(* if the safe region spans the preferred extent on the cross axis and the *)
(* preferred extent plus arrowLength on the popover's side of the clipped  *)
(* source rectangle, that direction's candidate has exactly the preferred  *)
(* size, and it is what is returned when the direction is listed first.    *)
C11_HappyPath ==
    Returned =>
        LET c == Candidates
        IN  \A d \in PopoverArrowDirection :
                HappyPath(d) =>
                    /\ ExactFit(c[d])
                    /\ (Len(Permitted) > 0 /\ Permitted[1] = d) =>
                           (layout = c[d] /\ ExactFit(layout))

(* Left is listed, its happy path holds with a real arrow and a source of  *)
(* positive size, and the left layout is returned.                         *)
C11_Witness ==
    /\ Returned
    /\ Permitted = <<"left">>
    /\ HappyPath("left")
    /\ params.arrowLength > 0
    /\ sourceRectClipped(params).width > 0
    /\ layout.arrow.direction = "left"
    /\ ~HappyPath("down")

(* The edges of an EdgeInsets.                                             *)
Edges == {"left", "top", "bottom", "right"}

(* The platform's inset of an edge, 0 when the provider yields null.       *)
PlatformInset(edge) == IF edgeInsets = undefined THEN 0 ELSE edgeInsets[1][edge]

(* C12.  Inset resolution: after every render each edge inset passed to    *)
(* calculatePopoverLayout is the larger of the platform's inset of that    *)
(* edge (0 when the provider yields null) and the minimum layout margin of *)
(* that edge, which is never undefined (10 when the caller gives none).    *)
C12_InsetResolution ==
    Returned =>
        /\ props.popoverMinimumLayoutMargins # undefined
        /\ \A edge \in Edges :
               LET passed == params.safeAreaEdgeInsets[edge]
                   margin == props.popoverMinimumLayoutMargins[1][edge]
               IN  /\ passed >= PlatformInset(edge)
                   /\ passed >= margin
                   /\ passed \in {PlatformInset(edge), margin}

(* A render with the default margins of 10 under a platform inset of 44 at *)
(* the top and 0 at the left: the top passes the platform's inset, the     *)
(* left the margin.                                                        *)
C12_Witness ==
    /\ Returned
    /\ props.popoverMinimumLayoutMargins = Some(defaultProps.popoverMinimumLayoutMargins)
    /\ PlatformInset("top") = Pt(44)
    /\ PlatformInset("left") = 0
    /\ params.safeAreaEdgeInsets.top = Pt(44)
    /\ params.safeAreaEdgeInsets.left = Pt(10)
    /\ state.backdropWidth > 0

(* C13.  Backdrop press notification: every press of the backdrop of a     *)
(* visible popover invokes, once, the callback the caller supplied through *)
(* the onBackdropPress prop.                                               *)
C13_BackdropPressNotifies ==
    [][(presses' = presses + 1 /\ props.onBackdropPress # undefined)
           => invoked'.onBackdropPress = invoked.onBackdropPress + 1]_vars

(* The safe region is not inverted: the insets of an axis fit the backdrop.*)
InsetsFitBackdrop ==
    /\ SafeLeft <= SafeRight
    /\ SafeTop <= SafeBottom

(* C14.  The clipped source rectangle is inside the safe region: whenever  *)
(* left + right <= backdropWidth and top + bottom <= backdropHeight, the   *)
(* clipped rectangle lies within the safe region and its width and height  *)
(* are >= 0.                                                               *)
C14_ClippedSourceInSafeArea ==
    (Returned /\ InsetsFitBackdrop) =>
        LET source == sourceRectClipped(params)
        IN  /\ WithinSafeArea(source)
            /\ source.width >= 0
            /\ source.height >= 0

(* C15.  A source rectangle wholly beyond one safe edge collapses: if it   *)
(* lies strictly left of the safe left edge, strictly right of the safe    *)
(* right edge, strictly above the safe top edge or strictly below the safe *)
(* bottom edge, the clipped rectangle has size 0 on that axis and its      *)
(* origin on that axis is that safe edge.  Stated here for a safe region   *)
(* that is not inverted only.                                              *)
C15_OutsideSourceCollapses ==
    (Returned /\ InsetsFitBackdrop) =>
        LET s == params.sourceRect
            source == sourceRectClipped(params)
        IN  /\ s.x + s.width < SafeLeft =>
                   (source.width = 0 /\ source.x = SafeLeft)
            /\ s.x > SafeRight =>
                   (source.width = 0 /\ source.x = SafeRight)
            /\ s.y + s.height < SafeTop =>
                   (source.height = 0 /\ source.y = SafeTop)
            /\ s.y > SafeBottom =>
                   (source.height = 0 /\ source.y = SafeBottom)

(* C16.  Clipping is the identity inside the safe region: a source         *)
(* rectangle that lies within the safe region is its own clipped           *)
(* rectangle, and the clipped midpoint is (x + width/2, y + height/2).     *)
C16_ClipIdentityInside ==
    (Returned /\ WithinSafeArea(params.sourceRect)) =>
        LET s == params.sourceRect
        IN  /\ sourceRectClipped(params) = s
            /\ sourceRectClippedMidpoint(params)
                   = [x |-> s.x + Half(s.width), y |-> s.y + Half(s.height)]

(* A source rectangle of positive, unequal width and height inside a safe  *)
(* region with insets at the left and the top, off its left edge.          *)
C16_Witness ==
    /\ Returned
    /\ LET s == params.sourceRect
       IN  /\ s.width > 0 /\ s.height > s.width
           /\ SafeLeft > 0 /\ SafeTop > 0
           /\ SafeLeft < s.x /\ s.x + s.width <= SafeRight
           /\ SafeTop <= s.y /\ s.y + s.height <= SafeBottom

(* The arguments of the scenario of C17.                                   *)
C17_Params ==
    [permittedArrowDirections |-> <<"down">>,
     safeAreaEdgeInsets |->
         [left |-> Pt(10), top |-> Pt(10), bottom |-> Pt(10), right |-> Pt(10)],
     sourceRect |-> [x |-> Pt(180), y |-> Pt(100),
                     width |-> Pt(40), height |-> Pt(40)],
     backdropHeight |-> Pt(800),
     backdropWidth |-> Pt(400),
     preferredHeight |-> Pt(400),
     preferredWidth |-> Pt(300),
     arrowBreadth |-> Pt(30),
     arrowLength |-> Pt(15),
     cornerWidth |-> Pt(30),
     borderRadius |-> Pt(15)]

(* C17.  Concrete scenario: backdrop 400 x 800, insets 10, source          *)
(* rectangle {180, 100, 40, 40}, preferred size 300 x 400, arrow 15 long   *)
(* and 30 broad, cornerWidth 30, borderRadius 15, permitted [down]: the    *)
(* down layout is returned, its arrow at (185, 85) of size 30 x 15, its    *)
(* popover at (50, 10) of size 300 x 75.                                   *)
C17_Scenario ==
    (Returned /\ params = C17_Params) =>
        /\ layout.arrow = [direction |-> "down", x |-> Pt(185), y |-> Pt(85),
                           width |-> Pt(30), height |-> Pt(15)]
        /\ layout.popover.x = Pt(50)
        /\ layout.popover.y = Pt(10)
        /\ layout.popover.width = Pt(300)
        /\ layout.popover.height = Pt(75)

(* The component has rendered the scenario.                                *)
C17_Witness ==
    /\ Returned
    /\ params = C17_Params
    /\ ~IsNull(layout)

(* Along the popover edge the arrow of layout l sits on: the arrow's       *)
(* anchor coordinate and extent, the edge's start and extent, the radii of *)
(* the corners at the edge's start and end, and the two other radii.       *)
ArrowEdge(l) ==
    LET a == l.arrow
        p == l.popover
        r == p.borderRadii
        alongX == a.direction \in {"down", "up"}
    IN  [anchor |-> IF alongX THEN a.x ELSE a.y,
         breadth |-> IF alongX THEN a.width ELSE a.height,
         start |-> IF alongX THEN p.x ELSE p.y,
         extent |-> IF alongX THEN p.width ELSE p.height,
         startRadius |->
             CASE a.direction = "down" -> r.borderBottomLeftRadius
               [] a.direction = "up" -> r.borderTopLeftRadius
               [] a.direction = "left" -> r.borderTopLeftRadius
               [] a.direction = "right" -> r.borderTopRightRadius,
         endRadius |->
             CASE a.direction = "down" -> r.borderBottomRightRadius
               [] a.direction = "up" -> r.borderTopRightRadius
               [] a.direction = "left" -> r.borderBottomLeftRadius
               [] a.direction = "right" -> r.borderBottomRightRadius,
         oppositeRadii |->
             CASE a.direction = "down" -> {r.borderTopLeftRadius, r.borderTopRightRadius}
               [] a.direction = "up" -> {r.borderBottomLeftRadius, r.borderBottomRightRadius}
               [] a.direction = "left" -> {r.borderTopRightRadius, r.borderBottomRightRadius}
               [] a.direction = "right" -> {r.borderTopLeftRadius, r.borderBottomLeftRadius}]

CornerRule(l) ==
    LET e == ArrowEdge(l)
    IN  /\ e.startRadius \in {0, params.borderRadius}
        /\ e.endRadius \in {0, params.borderRadius}
        /\ e.oppositeRadii = {params.borderRadius}
        /\ e.startRadius = 0 <=> e.anchor <= e.start + params.cornerWidth
        /\ e.endRadius = 0 <=> e.anchor >= e.start + e.extent - params.cornerWidth

(* C18.  Corner-radius suppression: in every directional layout each       *)
(* radius is 0 or borderRadius, the two corners opposite the arrow have    *)
(* borderRadius, and a corner on the arrow's edge is 0 exactly when the    *)
(* arrow's anchor coordinate is within cornerWidth of it; so arrow.x =     *)
(* popover.x in a down layout gives borderBottomLeftRadius = 0.            *)
C18_CornerRule ==
    Returned =>
        /\ layout.arrow.direction \in PopoverArrowDirection
        /\ CornerRule(layout)
        /\ \A d \in PopoverArrowDirection : CornerRule(Candidates[d])
        /\ (layout.arrow.direction = "down" /\ layout.arrow.x = layout.popover.x)
               => layout.popover.borderRadii.borderBottomLeftRadius = 0

(* A down layout of positive size under a positive cornerWidth whose       *)
(* bottom-left corner stays rounded while its bottom-right corner, beside  *)
(* the arrow, is squared.                                                  *)
C18_Witness ==
    /\ Returned
    /\ layout.arrow.direction = "down"
    /\ PositiveSize(layout)
    /\ params.cornerWidth > 0
    /\ layout.popover.borderRadii.borderBottomLeftRadius = params.borderRadius
    /\ layout.popover.borderRadii.borderBottomRightRadius = 0

(* C19.  The arrow never crosses a rounded corner: with cornerWidth >=     *)
(* borderRadius > 0, in a returned layout of positive size a corner on the *)
(* arrow's edge that keeps its radius has its rounded stretch, of length   *)
(* borderRadius, disjoint from the arrow's extent along that edge.         *)
C19_ArrowClearOfRoundedCorner ==
    (/\ Returned
     /\ params.cornerWidth >= params.borderRadius
     /\ params.borderRadius > 0
     /\ PositiveSize(layout)) =>
        LET e == ArrowEdge(layout)
        IN  /\ e.startRadius > 0 => e.anchor >= e.start + params.borderRadius
            /\ e.endRadius > 0 =>
                   e.anchor + e.breadth <= e.start + e.extent - params.borderRadius

(* Those of the bounds lo and hi that are nearest to v.                    *)
NearerBounds(v, lo, hi) ==
    {b \in {lo, hi} : \A o \in {lo, hi} : Abs(v - b) <= Abs(v - o)}

(* got is v when lo <= v <= hi, and otherwise the nearer of lo and hi.     *)
ClampedToNearer(got, v, lo, hi) ==
    IF lo <= v /\ v <= hi THEN got = v ELSE got \in NearerBounds(v, lo, hi)

(* C20.  Down arrow anchor: the down candidate's arrow is centred on the   *)
(* clipped source midpoint (arrow.x = midpoint.x - arrowBreadth/2) when    *)
(* that lies between insets.left and backdropWidth - insets.right -        *)
(* arrowBreadth, and otherwise sits at the nearer of the two; its arrow.y  *)
(* is sourceClipped.y - arrowLength when that lies between insets.top and  *)
(* backdropHeight - insets.bottom - arrowLength, and otherwise the nearer  *)
(* of the two.                                                             *)
C20_DownArrowAnchor ==
    Returned =>
        LET arrow == Candidates.down.arrow
            midpoint == sourceRectClippedMidpoint(params)
            source == sourceRectClipped(params)
        IN  /\ ClampedToNearer(arrow.x,
                               midpoint.x - Half(params.arrowBreadth),
                               SafeLeft,
                               SafeRight - params.arrowBreadth)
            /\ ClampedToNearer(arrow.y,
                               source.y - params.arrowLength,
                               SafeTop,
                               SafeBottom - params.arrowLength)

(* The arguments with the axes swapped: x <-> y, width <-> height, and the *)
(* insets left <-> top and right <-> bottom.                               *)
TransposeParams(p) ==
    [permittedArrowDirections |-> p.permittedArrowDirections,
     safeAreaEdgeInsets |->
         [left |-> p.safeAreaEdgeInsets.top, top |-> p.safeAreaEdgeInsets.left,
          right |-> p.safeAreaEdgeInsets.bottom, bottom |-> p.safeAreaEdgeInsets.right],
     sourceRect |-> [x |-> p.sourceRect.y, y |-> p.sourceRect.x,
                     width |-> p.sourceRect.height, height |-> p.sourceRect.width],
     backdropHeight |-> p.backdropWidth,
     backdropWidth |-> p.backdropHeight,
     preferredHeight |-> p.preferredWidth,
     preferredWidth |-> p.preferredHeight,
     arrowBreadth |-> p.arrowBreadth,
     arrowLength |-> p.arrowLength,
     cornerWidth |-> p.cornerWidth,
     borderRadius |-> p.borderRadius]

TransposeDirection(d) ==
    CASE d = "up" -> "left"
      [] d = "left" -> "up"
      [] d = "down" -> "right"
      [] d = "right" -> "down"

(* A layout with the axes swapped; the corners top-right and bottom-left   *)
(* change places.                                                          *)
TransposeLayout(l) ==
    [arrow |-> [direction |-> TransposeDirection(l.arrow.direction),
                x |-> l.arrow.y, y |-> l.arrow.x,
                width |-> l.arrow.height, height |-> l.arrow.width],
     popover |->
         [x |-> l.popover.y, y |-> l.popover.x,
          width |-> l.popover.height, height |-> l.popover.width,
          borderRadii |->
              [borderTopRightRadius |-> l.popover.borderRadii.borderBottomLeftRadius,
               borderTopLeftRadius |-> l.popover.borderRadii.borderTopLeftRadius,
               borderBottomLeftRadius |-> l.popover.borderRadii.borderTopRightRadius,
               borderBottomRightRadius |-> l.popover.borderRadii.borderBottomRightRadius]]]

(* C21.  Left and right are the axis-swapped up and down: the left         *)
(* candidate is the up candidate of the transposed arguments, transposed   *)
(* back, and the right candidate is the down candidate of the transposed   *)
(* arguments, transposed back.                                             *)
C21_LeftRightAreTransposedUpDown ==
    Returned =>
        LET c == Candidates
            t == permutations(DirectionParams(TransposeParams(params)))
        IN  /\ c.left = TransposeLayout(t.up)
            /\ c.right = TransposeLayout(t.down)

C23_DegenerateCandidatesLose ==
    (/\ Returned
     /\ Permitted # <<>>
     /\ \E i \in 1..Len(Permitted) : PositiveSize(PermittedCandidates[i])) =>
        PositiveSize(layout)

(* The first permitted direction has a candidate of zero or negative size, *)
(* the second one of positive size, and the second is returned.            *)
C23_Witness ==
    /\ Returned
    /\ Len(Permitted) = 2
    /\ ~PositiveSize(PermittedCandidates[1])
    /\ PositiveSize(PermittedCandidates[2])
    /\ layout = PermittedCandidates[2]
    /\ PositiveSize(layout)

(* C24.  The no-arrow layout never has a negative size: for every input,   *)
(* insets that together exceed the backdrop included,                      *)
(* calculatePopoverLayoutForArrowDirectionNone returns width >= 0 and      *)
(* height >= 0.                                                            *)
C24_NoneNonNegativeSize ==
    (Returned /\ layout.arrow.direction = "none") =>
        /\ layout.popover.width >= 0
        /\ layout.popover.height >= 0

(* C25.  The no-arrow layout keeps its origin in the safe region: when     *)
(* left + right <= backdropWidth and top + bottom <= backdropHeight, the   *)
(* layout of calculatePopoverLayoutForArrowDirectionNone has               *)
(* left <= x <= backdropWidth - right, top <= y <= backdropHeight -        *)
(* bottom, x + width <= backdropWidth - right and y + height <=            *)
(* backdropHeight - bottom.                                                *)
C25_NoneOriginClamped ==
    (Returned /\ layout.arrow.direction = "none" /\ InsetsFitBackdrop) =>
        /\ SafeLeft <= layout.popover.x
        /\ layout.popover.x <= SafeRight
        /\ SafeTop <= layout.popover.y
        /\ layout.popover.y <= SafeBottom
        /\ layout.popover.x + layout.popover.width <= SafeRight
        /\ layout.popover.y + layout.popover.height <= SafeBottom

C27_ContainmentWhereArrowFits ==
    (Returned /\ SafeAreaHoldsArrow) =>
        /\ layout.popover.width >= 0
        /\ layout.popover.height >= 0
        /\ WithinSafeArea(layout.popover)
        /\ WithinSafeArea(layout.arrow)

(* Insets at the left and the top, a safe region that holds the arrow but  *)
(* not the preferred size, a source that is not wholly inside it, and a    *)
(* returned popover of positive size cut short of the preferred one.       *)
C27_Witness ==
    /\ Returned
    /\ SafeAreaHoldsArrow
    /\ params.arrowLength > 0
    /\ params.arrowBreadth > 0
    /\ params.safeAreaEdgeInsets.left > 0
    /\ params.safeAreaEdgeInsets.top > 0
    /\ ~WithinSafeArea(params.sourceRect)
    /\ PositiveSize(layout)
    /\ ~ExactFit(layout)
    /\ WithinSafeArea(layout.popover)
    /\ WithinSafeArea(layout.arrow)

(* The directions whose candidates take part in the selection.             *)
SelectableDirections ==
    IF Permitted = <<>> THEN PopoverArrowDirection
    ELSE {Permitted[k] : k \in 1..Len(Permitted)}

(* C28.  The returned layout has the largest area: its width x height is   *)
(* at least that of the candidate of every permitted direction (of all     *)
(* four when the list is empty), also when it was returned by the          *)
(* exact-fit short-circuit.                                                *)
C28_SelectedAreaIsMaximal ==
    Returned =>
        \A d \in SelectableDirections : Area(Candidates[d]) <= Area(layout)

(* The short-circuit returned the first listed direction, an exact fit,    *)
(* while the second listed direction has a smaller candidate of positive   *)
(* size.                                                                   *)
C28_Witness ==
    /\ Returned
    /\ Len(Permitted) = 2
    /\ ExactFit(PermittedCandidates[1])
    /\ layout = PermittedCandidates[1]
    /\ PositiveSize(PermittedCandidates[2])
    /\ Area(PermittedCandidates[2]) < Area(layout)

(* The current arguments with another permitted list.                      *)
ParamsPermitting(list) == [params EXCEPT !.permittedArrowDirections = list]

(* C29.  The empty list behaves like the default list: a call with         *)
(* permittedArrowDirections = [] returns exactly the layout that the same  *)
(* call with [down, up, left, right] returns.                              *)
C29_EmptyListIsDefaultList ==
    (Returned /\ Permitted \in {<<>>, DefaultPermittedArrowDirections}) =>
        /\ layout = calculatePopoverLayout(ParamsPermitting(<<>>))
        /\ layout = calculatePopoverLayout(ParamsPermitting(DefaultPermittedArrowDirections))

(* A call with the empty list that returns the up candidate, an exact fit  *)
(* that the default list reaches by its short-circuit after passing over   *)
(* down.                                                                   *)
C29_Witness ==
    /\ Returned
    /\ Permitted = <<>>
    /\ layout.arrow.direction = "up"
    /\ ExactFit(layout)
    /\ PositiveSize(Candidates.down)
    /\ layout = calculatePopoverLayout(ParamsPermitting(DefaultPermittedArrowDirections))

(* C30.  The cross-axis size is the safe span capped by the preferred      *)
(* size: the up and down candidates have width min(preferredWidth,         *)
(* backdropWidth - left - right), the left and right candidates have       *)
(* height min(preferredHeight, backdropHeight - top - bottom), wherever    *)
(* the source rectangle is.                                                *)
C30_CrossAxisSize ==
    Returned =>
        LET c == Candidates
            width == Min(params.preferredWidth, SafeRight - SafeLeft)
            height == Min(params.preferredHeight, SafeBottom - SafeTop)
        IN  /\ c.up.popover.width = width
            /\ c.down.popover.width = width
            /\ c.left.popover.height = height
            /\ c.right.popover.height = height

(* An up layout is returned whose width is the whole safe span, narrower   *)
(* than preferred, with a source at the right edge of an inset backdrop.   *)
C30_Witness ==
    /\ Returned
    /\ layout.arrow.direction = "up"
    /\ params.safeAreaEdgeInsets.left > 0
    /\ 0 < SafeRight - SafeLeft
    /\ SafeRight - SafeLeft < params.preferredWidth
    /\ params.sourceRect.x >= SafeRight
    /\ layout.popover.width = SafeRight - SafeLeft
    /\ layout.popover.height > 0

====
